---- MODULE Spec2Model ----
(***************************************************************************)
(* A model of the lead enrichment bot: the CompanyEnricher class           *)
(* (find_company_website, scrape_website_content, analyze_with_gemini,     *)
(* analyze_with_openai, fallback_analysis, enrich_company, process_csv).   *)
(*                                                                         *)
(* Python strings are sequences of one-character strings, so that lower(), *)
(* replace(), re.sub() and the "in" substring test are computed, character *)
(* by character, the way the code computes them.  The network (HEAD        *)
(* probes, the page GET, the generation POST), the CSV file and the output *)
(* writes are the environment: their outcomes are chosen nondeterministic- *)
(* ally.                                                                   *)
(***************************************************************************)
EXTENDS Integers, Sequences, FiniteSets, TLC

(***************************************************************************)
(* Python values                                                           *)
(***************************************************************************)
UpperChars == <<"A", "B", "C", "D", "E", "F", "G", "H", "I", "J", "K", "L", "M", "N", "O", "P", "Q", "R", "S", "T", "U", "V", "W", "X", "Y", "Z">>
LowerChars == <<"a", "b", "c", "d", "e", "f", "g", "h", "i", "j", "k", "l", "m", "n", "o", "p", "q", "r", "s", "t", "u", "v", "w", "x", "y", "z">>
DigitChars == <<"0", "1", "2", "3", "4", "5", "6", "7", "8", "9">>

\* The two non-string values the program meets.  Each is a one-element
\* sequence whose element is not a character, so it equals no string.
None == <<"None">>
NaN == <<"nan">>

IsStr(v) == v # None /\ v # NaN

\* bool(v) of a string or None: None and '' are falsy.
Truthy(v) == v # None /\ v # <<>>

\* str(v) inside an f-string.
fstr(v) == IF v = NaN THEN <<"n", "a", "n">> ELSE IF v = None THEN <<"N", "o", "n", "e">> ELSE v

Range(s) == {s[i] : i \in 1..Len(s)}

UpperSet == Range(UpperChars)

\* The lower-case letter of each upper-case letter.
LowerOf == [c \in UpperSet |->
              LowerChars[CHOOSE i \in 1..Len(UpperChars) : UpperChars[i] = c]]

LowerChar(c) == IF c \in UpperSet THEN LowerOf[c] ELSE c

\* str.lower()
lower(s) == [i \in 1..Len(s) |-> LowerChar(s[i])]

\* k in s, for strings
Contains(s, k) ==
    \E i \in 0..(Len(s) - Len(k)) : SubSeq(s, i + 1, i + Len(k)) = k

\* str.replace(old, new), old non-empty: leftmost, non-overlapping
RECURSIVE replace(_, _, _)
replace(s, old, new) ==
    IF Len(s) < Len(old) THEN s
    ELSE IF SubSeq(s, 1, Len(old)) = old
         THEN new \o replace(SubSeq(s, Len(old) + 1, Len(s)), old, new)
         ELSE <<s[1]>> \o replace(Tail(s), old, new)

\* \w and \s of the regular expression r'[^\w\s]'
WordChars == Range(UpperChars) \cup Range(LowerChars) \cup Range(DigitChars) \cup {"_"}

IsWordChar(c) == c \in WordChars

IsSpaceChar(c) == c \in {" ", "\t", "\n"}

IsKept(c) == IsWordChar(c) \/ IsSpaceChar(c)

\* re.sub(r'[^\w\s]', '', s)
re_sub_nonword(s) == SelectSeq(s, IsKept)

\* dict.get(k, default)
get(d, k, default) == IF k \in DOMAIN d THEN d[k] ELSE default

(***************************************************************************)
(* Page texts.  A text is its leading characters followed by `pad` filler  *)
(* characters ('.', which occurs in no keyword and has no upper case), so  *)
(* that texts of a few thousand characters stay small.                     *)
(***************************************************************************)
Text(chars, n) == [text |-> chars, pad |-> n]

\* a plain string as a text
AsText(s) == Text(s, 0)

\* len(t)
TLen(t) == Len(t.text) + t.pad

\* t[:n]
Slice(t, n) ==
    IF Len(t.text) >= n THEN Text(SubSeq(t.text, 1, n), 0)
    ELSE Text(t.text, IF t.pad < n - Len(t.text) THEN t.pad ELSE n - Len(t.text))

\* keyword in t.lower()
TextHas(t, k) == Contains(lower(t.text), k)

\* chars, filled up to n characters (n >= Len(chars))
Padded(chars, n) == Text(chars, n - Len(chars))

(***************************************************************************)
(* fallback_analysis                                                       *)
(***************************************************************************)
TechnologyKeywords == {<<"s", "o", "f", "t", "w", "a", "r", "e">>, <<"t", "e", "c", "h">>, <<"a", "i">>, <<"s", "a", "a", "s">>, <<"a", "p", "p">>}
FinanceKeywords == {<<"f", "i", "n", "a", "n", "c", "i", "a", "l">>, <<"b", "a", "n", "k", "i", "n", "g">>, <<"f", "i", "n", "t", "e", "c", "h">>}
HealthcareKeywords == {<<"h", "e", "a", "l", "t", "h">>, <<"m", "e", "d", "i", "c", "a", "l">>, <<"h", "e", "a", "l", "t", "h", "c", "a", "r", "e">>}
RetailKeywords == {<<"r", "e", "t", "a", "i", "l">>, <<"e", "c", "o", "m", "m", "e", "r", "c", "e">>, <<"s", "h", "o", "p", "p", "i", "n", "g">>}

Technology == <<"T", "e", "c", "h", "n", "o", "l", "o", "g", "y">>
Finance == <<"F", "i", "n", "a", "n", "c", "e">>
Healthcare == <<"H", "e", "a", "l", "t", "h", "c", "a", "r", "e">>
Retail == <<"R", "e", "t", "a", "i", "l">>
BusinessServices == <<"B", "u", "s", "i", "n", "e", "s", "s", " ", "S", "e", "r", "v", "i", "c", "e", "s">>

LargeThreshold == 2000
MediumThreshold == 1000

AnyKeyword(t, keywords) == \E k \in keywords : TextHas(t, k)

\* detect_industry with the healthcare keywords tested first.
detect_industry_healthcare_first(website_content) ==
    IF AnyKeyword(website_content, HealthcareKeywords) THEN Healthcare
    ELSE IF AnyKeyword(website_content, TechnologyKeywords) THEN Technology
    ELSE IF AnyKeyword(website_content, FinanceKeywords) THEN Finance
    ELSE IF AnyKeyword(website_content, RetailKeywords) THEN Retail
    ELSE BusinessServices

detect_industry(website_content) ==
    IF AnyKeyword(website_content, TechnologyKeywords) THEN Technology
    ELSE IF AnyKeyword(website_content, FinanceKeywords) THEN Finance
    ELSE IF AnyKeyword(website_content, HealthcareKeywords) THEN Healthcare
    ELSE IF AnyKeyword(website_content, RetailKeywords) THEN Retail
    ELSE BusinessServices

\* estimate_size with the thresholds taken inclusively.
estimate_size_inclusive(website_content) ==
    IF TLen(website_content) >= LargeThreshold THEN <<"l", "a", "r", "g", "e">>
    ELSE IF TLen(website_content) >= MediumThreshold THEN <<"m", "e", "d", "i", "u", "m">>
    ELSE <<"s", "m", "a", "l", "l">>

estimate_size(website_content) ==
    IF TLen(website_content) > LargeThreshold THEN <<"l", "a", "r", "g", "e">>
    ELSE IF TLen(website_content) > MediumThreshold THEN <<"m", "e", "d", "i", "u", "m">>
    ELSE <<"s", "m", "a", "l", "l">>

fallback_analysis(company_name, website_content) ==
    LET industry == detect_industry(website_content)
        company_size == estimate_size(website_content)
    IN  [summary |-> fstr(company_name) \o <<" ", "i", "s", " ", "a", " ">> \o lower(industry) \o <<" ", "c", "o", "m", "p", "a", "n", "y", ".">>,
         target_customer |-> <<"B", "u", "s", "i", "n", "e", "s", "s", "e", "s", " ", "a", "n", "d", " ", "c", "o", "n", "s", "u", "m", "e", "r", "s">>,
         industry |-> industry,
         company_size |-> company_size,
         automation_pitch |->
             <<"A", "I", " ", "c", "h", "a", "t", "b", "o", "t", " ", "a", "n", "d", " ", "p", "r", "o", "c", "e", "s", "s", " ", "a", "u", "t", "o", "m", "a", "t", "i", "o", "n", " ", "f", "o", "r", " ">> \o fstr(company_name)]

(***************************************************************************)
(* The generation backends.  A response is what the POST gave:             *)
(*   request_error   requests.post raised (connection error, timeout)      *)
(*   bad_status      raise_for_status() raised (non-success status)        *)
(*   bad_body        the body is not the expected JSON envelope            *)
(*   no_json         the generated text holds no {...}                     *)
(*   malformed_json  the {...} found does not parse                        *)
(*   json_object     the {...} found parses, to the dict obj               *)
(***************************************************************************)
Response(kind, obj) == [kind |-> kind, obj |-> obj]

PromptLimit == 1500

\* The text the prompt carries: website_content[:1500]
prompt_content(website_content) == Slice(website_content, PromptLimit)

\* The body of the try block of analyze_with_gemini / analyze_with_openai:
\* exc when a statement of it raised, else the value it returns.
generation_try(company_name, website_content, resp) ==
    IF resp.kind \in {"request_error", "bad_status", "bad_body", "malformed_json"}
    THEN [exc |-> TRUE, val |-> None]
    ELSE IF resp.kind = "json_object"
         THEN [exc |-> FALSE, val |-> resp.obj]
         ELSE [exc |-> FALSE, val |-> fallback_analysis(company_name, website_content)]

\* analyze_with_gemini falling back on the content as truncated for the prompt.
analyze_with_gemini_truncated(gemini_api_key, company_name, website_content, resp) ==
    IF ~Truthy(gemini_api_key)
    THEN fallback_analysis(company_name, website_content)
    ELSE LET t == generation_try(company_name, prompt_content(website_content), resp)
         IN  IF t.exc
             THEN fallback_analysis(company_name, prompt_content(website_content))
             ELSE t.val

analyze_with_gemini(gemini_api_key, company_name, website_content, resp) ==
    IF ~Truthy(gemini_api_key)
    THEN fallback_analysis(company_name, website_content)
    ELSE LET t == generation_try(company_name, website_content, resp)
         IN  IF t.exc
             THEN fallback_analysis(company_name, website_content)
             ELSE t.val

analyze_with_openai(openai_api_key, company_name, website_content, resp) ==
    IF ~Truthy(openai_api_key)
    THEN fallback_analysis(company_name, website_content)
    ELSE LET t == generation_try(company_name, website_content, resp)
         IN  IF t.exc
             THEN fallback_analysis(company_name, website_content)
             ELSE t.val

\* The POSTs a call of analyze_with_gemini / analyze_with_openai makes.
gemini_posts(gemini_api_key, website_content) ==
    IF Truthy(gemini_api_key)
    THEN <<[endpoint |-> "gemini", content |-> prompt_content(website_content)]>>
    ELSE <<>>

openai_posts(openai_api_key, website_content) ==
    IF Truthy(openai_api_key)
    THEN <<[endpoint |-> "openai", content |-> prompt_content(website_content)]>>
    ELSE <<>>

(***************************************************************************)
(* Website resolution.  A probe outcome is what session.head gave: it      *)
(* raised, or it answered with a status.                                   *)
(***************************************************************************)
StatusOK == 200

ProbeRaises == [raises |-> TRUE, status |-> 0]
ProbeStatus(s) == [raises |-> FALSE, status |-> s]

is_website_accessible(outcome) ==
    IF outcome.raises THEN FALSE ELSE outcome.status = StatusOK

\* clean_name.lower().replace(' ', '')
squash(s) == replace(lower(s), << " " >>, <<>>)

domain_patterns(clean_name) ==
    << squash(clean_name) \o <<".", "c", "o", "m">>,
       squash(clean_name) \o <<".", "c", "o">>,
       squash(clean_name) \o <<".", "i", "o">>,
       <<"w", "w", "w", ".">> \o squash(clean_name) \o <<".", "c", "o", "m">> >>

test_url(pattern) == <<"h", "t", "t", "p", "s", ":", "/", "/">> \o pattern

\* The index of the first pattern whose probe is accessible, 0 if none.
first_accessible(probe) ==
    IF \E i \in 1..Len(probe) : is_website_accessible(probe[i])
    THEN CHOOSE i \in 1..Len(probe) :
            /\ is_website_accessible(probe[i])
            /\ \A j \in 1..(i - 1) : ~is_website_accessible(probe[j])
    ELSE 0

\* find_try returning '' when no candidate is accessible.
find_try_empty(company_name, probe) ==
    IF ~IsStr(company_name) THEN [exc |-> TRUE, val |-> None, heads |-> <<>>]
    ELSE LET clean_name == re_sub_nonword(company_name)
             patterns == domain_patterns(clean_name)
             hit == first_accessible(probe)
         IN  IF hit > 0
             THEN [exc |-> FALSE, val |-> test_url(patterns[hit]),
                   heads |-> [i \in 1..hit |-> test_url(patterns[i])]]
             ELSE [exc |-> FALSE, val |-> <<>>,
                   heads |-> [i \in 1..Len(patterns) |-> test_url(patterns[i])]]

\* The try block of find_company_website: re.sub raises TypeError on a
\* value that is not a string.
find_try(company_name, probe) ==
    IF ~IsStr(company_name) THEN [exc |-> TRUE, val |-> None, heads |-> <<>>]
    ELSE LET clean_name == re_sub_nonword(company_name)
             patterns == domain_patterns(clean_name)
             hit == first_accessible(probe)
         IN  IF hit > 0
             THEN [exc |-> FALSE, val |-> test_url(patterns[hit]),
                   heads |-> [i \in 1..hit |-> test_url(patterns[i])]]
             ELSE [exc |-> FALSE,
                   val |-> <<"h", "t", "t", "p", "s", ":", "/", "/", "w", "w", "w", ".">> \o squash(clean_name) \o <<".", "c", "o", "m">>,
                   heads |-> [i \in 1..Len(patterns) |-> test_url(patterns[i])]]

\* Its except block: company_name.lower() raises AttributeError on a value
\* that is not a string.
find_except(company_name) ==
    IF ~IsStr(company_name) THEN [exc |-> TRUE, val |-> None]
    ELSE [exc |-> FALSE, val |-> <<"h", "t", "t", "p", "s", ":", "/", "/", "w", "w", "w", ".">> \o squash(company_name) \o <<".", "c", "o", "m">>]

find_company_website(company_name, probe) ==
    LET t == find_try(company_name, probe)
    IN  IF t.exc
        THEN LET h == find_except(company_name)
             IN  [exc |-> h.exc, val |-> h.val, heads |-> t.heads]
        ELSE t

(***************************************************************************)
(* Content fetch.  A fetch outcome is ok = FALSE when the GET, its status  *)
(* check or the parse raised, else the visible text of the page, cleaned.  *)
(***************************************************************************)
ContentLimit == 2000

Fetch(ok, page) == [ok |-> ok, page |-> page]

\* scrape_website_content returning the whole text.
scrape_website_content_untruncated(fetch) ==
    IF ~fetch.ok THEN Text(<<>>, 0) ELSE fetch.page

scrape_website_content(fetch) ==
    IF ~fetch.ok THEN Text(<<>>, 0)
    ELSE IF TLen(fetch.page) > ContentLimit
         THEN Slice(fetch.page, ContentLimit)
         ELSE fetch.page

(***************************************************************************)
(* enrich_company.  env is what the network does during the call:          *)
(* env.probe[i] the outcome of the i-th HEAD probe, env.fetch that of the  *)
(* page GET, env.resp that of the generation POST.                         *)
(***************************************************************************)
Env(probe, fetch, resp) == [probe |-> probe, fetch |-> fetch, resp |-> resp]

Unknown == <<"U", "n", "k", "n", "o", "w", "n">>

\* The result dict as first built: every field but company_name is ''.
initial_result(company_name) ==
    [company_name |-> company_name,
     website |-> <<>>,
     industry |-> <<>>,
     company_size |-> <<>>,
     summary_from_llm |-> <<>>,
     target_customer |-> <<>>,
     automation_pitch_from_llm |-> <<>>]

\* result.update({...}) from an analysis dict
update_from_analysis(result, analysis) ==
    [result EXCEPT
        !.industry = get(analysis, "industry", Unknown),
        !.company_size = get(analysis, "company_size", Unknown),
        !.summary_from_llm = get(analysis, "summary", <<"N", "o", " ", "s", "u", "m", "m", "a", "r", "y", " ", "a", "v", "a", "i", "l", "a", "b", "l", "e">>),
        !.target_customer = get(analysis, "target_customer", Unknown),
        !.automation_pitch_from_llm =
            get(analysis, "automation_pitch", <<"C", "u", "s", "t", "o", "m", " ", "A", "I", " ", "s", "o", "l", "u", "t", "i", "o", "n", " ", "a", "v", "a", "i", "l", "a", "b", "l", "e">>)]

\* result.update({...}) of the except block
update_on_error(result, company_name) ==
    [result EXCEPT
        !.industry = Unknown,
        !.company_size = Unknown,
        !.summary_from_llm = <<"E", "r", "r", "o", "r", " ", "p", "r", "o", "c", "e", "s", "s", "i", "n", "g", " ">> \o fstr(company_name),
        !.target_customer = Unknown,
        !.automation_pitch_from_llm = <<"P", "l", "e", "a", "s", "e", " ", "c", "o", "n", "t", "a", "c", "t", " ", "u", "s", " ", "f", "o", "r", " ", "c", "u", "s", "t", "o", "m", " ", "s", "o", "l", "u", "t", "i", "o", "n">>]

\* Step 3: the strategy the credentials select
select_analysis(gemini_api_key, openai_api_key, company_name, content, resp) ==
    IF Truthy(gemini_api_key)
    THEN analyze_with_gemini(gemini_api_key, company_name, content, resp)
    ELSE IF Truthy(openai_api_key)
         THEN analyze_with_openai(openai_api_key, company_name, content, resp)
         ELSE fallback_analysis(company_name, content)

\* select_posts with the OpenAI credential tested first.
select_posts_openai_first(gemini_api_key, openai_api_key, content) ==
    IF Truthy(openai_api_key) THEN openai_posts(openai_api_key, content)
    ELSE IF Truthy(gemini_api_key) THEN gemini_posts(gemini_api_key, content)
         ELSE <<>>

select_posts(gemini_api_key, openai_api_key, content) ==
    IF Truthy(gemini_api_key) THEN gemini_posts(gemini_api_key, content)
    ELSE IF Truthy(openai_api_key) THEN openai_posts(openai_api_key, content)
         ELSE <<>>

\* The try block: exc when it raised, val the result dict as it then is,
\* heads, gets and posts the requests made.
enrich_try(gemini_api_key, openai_api_key, company_name, env) ==
    LET result == initial_result(company_name)
        site == find_company_website(company_name, env.probe)
    IN  IF site.exc
        THEN [exc |-> TRUE, val |-> result,
              heads |-> site.heads, gets |-> <<>>, posts |-> <<>>]
        ELSE IF Truthy(site.val)
        THEN LET found == [result EXCEPT !.website = site.val]
                 content == scrape_website_content(env.fetch)
             IN  IF TLen(content) > 0
                 THEN [exc |-> FALSE,
                       val |-> update_from_analysis(found,
                                  select_analysis(gemini_api_key, openai_api_key,
                                                  company_name, content, env.resp)),
                       heads |-> site.heads, gets |-> <<site.val>>,
                       posts |-> select_posts(gemini_api_key, openai_api_key, content)]
                 ELSE [exc |-> FALSE,
                       val |-> update_from_analysis(found,
                                  fallback_analysis(company_name, AsText(company_name))),
                       heads |-> site.heads, gets |-> <<site.val>>, posts |-> <<>>]
        ELSE [exc |-> FALSE,
              val |-> update_from_analysis(result,
                         fallback_analysis(company_name, AsText(company_name))),
              heads |-> site.heads, gets |-> <<>>, posts |-> <<>>]

\* enrich_company without its except block.
enrich_company_unguarded(gemini_api_key, openai_api_key, company_name, env) ==
    enrich_try(gemini_api_key, openai_api_key, company_name, env)

enrich_company(gemini_api_key, openai_api_key, company_name, env) ==
    LET t == enrich_try(gemini_api_key, openai_api_key, company_name, env)
    IN  IF t.exc
        THEN [t EXCEPT !.exc = FALSE, !.val = update_on_error(t.val, company_name)]
        ELSE t

(***************************************************************************)
(* The inputs the model draws from.                                        *)
(***************************************************************************)
MaxRows == 2

\* Company names of a table: pandas reads an empty cell as nan.
BatchNames == {<<"A", "c", "m", "e", " ", "I", "n", "c", ".">>, <<"H", "e", "a", "l", "t", "h", "T", "e", "c", "h">>, NaN}

\* Company names of a direct call.
Names == BatchNames \cup {<<>>}

\* A credential: absent, empty, or present.
KeyValues == {None, <<>>, <<"k">>}

\* The credentials of a batch run: absent or present.
BatchKeyValues == {None, <<"k">>}

\* Input paths: with the lower-case extension, with an upper-case one.
InputFiles == {<<"c", "o", "m", "p", "a", "n", "i", "e", "s", ".", "c", "s", "v">>,
               <<"L", "E", "A", "D", "S", ".", "C", "S", "V">>}
OutputArgs == {None, <<"o", "u", "t", ".", "c", "s", "v">>}

\* Column names are compared whole, so they are TLA+ strings.
ColumnSets == {<<"company_name">>, <<"company_name", "city">>,
               <<"name", "city">>, <<>>}

RECURSIVE SeqsUpTo(_, _)
SeqsUpTo(S, n) ==
    IF n = 0 THEN {<<>>}
    ELSE LET shorter == SeqsUpTo(S, n - 1)
         IN  shorter \cup {Append(s, x) : s \in {t \in shorter : Len(t) = n - 1}, x \in S}

ProbeOutcomes == {ProbeStatus(StatusOK), ProbeStatus(404), ProbeRaises}
Probes == [1..4 -> ProbeOutcomes]

EmptyPage == Text(<<>>, 0)
SoftwarePage == AsText(<<"W", "e", " ", "b", "u", "i", "l", "d", " ", "S", "o", "f", "t", "w", "a", "r", "e">>)
ClinicPage == Padded(<<"m", "e", "d", "i", "c", "a", "l", " ", "c", "l", "i", "n", "i", "c">>, MediumThreshold + 500)
LongPage == Padded(<<"b", "o", "l", "t", "s", " ", "a", "n", "d", " ", "n", "u", "t", "s">>, LargeThreshold + 500)
Pages == {EmptyPage, SoftwarePage, ClinicPage, LongPage}
Fetches == {Fetch(FALSE, EmptyPage)} \cup {Fetch(TRUE, p) : p \in Pages}

FullJson ==
    [summary |-> <<"A", " ", "f", "r", "e", "i", "g", "h", "t", " ", "b", "r", "o", "k", "e", "r">>, target_customer |-> <<"S", "h", "i", "p", "p", "e", "r", "s">>,
     industry |-> <<"L", "o", "g", "i", "s", "t", "i", "c", "s">>, company_size |-> <<"s", "t", "a", "r", "t", "u", "p">>,
     automation_pitch |-> <<"R", "o", "u", "t", "e", " ", "p", "l", "a", "n", "n", "i", "n", "g">>]
EmptyJson == [k \in {} |-> None]
OddJson == [summary |-> None, industry |-> <<>>]
JsonObjects == {FullJson, EmptyJson, OddJson}

FailureKinds == {"request_error", "bad_status", "bad_body", "no_json", "malformed_json"}
Responses == {Response(k, EmptyJson) : k \in FailureKinds}
                \cup {Response("json_object", o) : o \in JsonObjects}

Envs == {Env(p, f, r) : p \in Probes, f \in Fetches, r \in Responses}

\* Per-record outcomes of a batch: the probes, the fetch and the generation
\* call each succeed or fail.
BatchEnvs ==
    {Env(p, f, r) :
        p \in {[i \in 1..4 |-> ProbeStatus(StatusOK)], [i \in 1..4 |-> ProbeRaises]},
        f \in {Fetch(TRUE, LongPage), Fetch(FALSE, EmptyPage)},
        r \in {Response("json_object", FullJson), Response("request_error", EmptyJson)}}

\* Contents of a direct call of an analysis function.
Texts ==
    TechnologyKeywords \cup FinanceKeywords \cup HealthcareKeywords \cup RetailKeywords
        \cup {<<>>, <<"S", "O", "F", "T", "W", "A", "R", "E">>, <<"m", "e", "d", "i", "c", "a", "l", " ", "t", "r", "a", "i", "n", "i", "n", "g">>, <<"m", "e", "d", "i", "c", "a", "l", " ", "s", "o", "f", "t", "w", "a", "r", "e">>,
              <<"m", "e", "d", "i", "c", "a", "l", " ", "c", "l", "i", "n", "i", "c">>, <<"b", "o", "l", "t", "s", " ", "a", "n", "d", " ", "n", "u", "t", "s">>}
Lengths ==
    {500, MediumThreshold, MediumThreshold + 1, 1500,
     LargeThreshold, LargeThreshold + 1, 2500}
Contents ==
    {AsText(t) : t \in Texts} \cup {Padded(t, n) : t \in Texts, n \in Lengths}

(***************************************************************************)
(* State                                                                   *)
(***************************************************************************)
VARIABLES
    gemini_api_key,  \* self.gemini_api_key
    openai_api_key,  \* self.openai_api_key
    csv,             \* the input file: path, exists, columns, rows
    output_arg,      \* process_csv's output_file argument
    pc,              \* where process_csv is
    output_file,     \* the output path in use
    idx,             \* rows consumed by the loop
    enriched_data,   \* the list the loop appends to
    requests,        \* HEAD, GET and POST requests made so far
    files,           \* result files written: path and number of rows
    result_df,       \* what process_csv returned
    error,           \* the exception process_csv raised
    call             \* a direct call of a method and what it gave

vars == <<gemini_api_key, openai_api_key, csv, output_arg, pc, output_file, idx,
          enriched_data, requests, files, result_df, error, call>>

batch_vars == <<csv, output_arg, pc, output_file, idx, enriched_data, requests,
                files, result_df, error>>

NoCall == [op |-> "none"]
NoError == <<>>

Csv(path, exists, columns, rows) ==
    [input_file |-> path, exists |-> exists, columns |-> columns, rows |-> rows]

\* The files process_csv may be given: a missing file, a table without the
\* company_name column, a table with it.
RowsFor(columns) ==
    IF "company_name" \in Range(columns)
    THEN SeqsUpTo(BatchNames, MaxRows)
    ELSE {<<>>, <<NaN>>}

Tables ==
    {Csv(p, FALSE, <<>>, <<>>) : p \in InputFiles}
    \cup UNION {{Csv(p, TRUE, c, rows) : p \in InputFiles, rows \in RowsFor(c)} :
                c \in ColumnSets}

Fresh ==
    /\ pc = "start"
    /\ output_file = None
    /\ idx = 0
    /\ enriched_data = <<>>
    /\ requests = [heads |-> 0, gets |-> 0, posts |-> 0]
    /\ files = <<>>
    /\ result_df = <<>>
    /\ error = NoError
    /\ call = NoCall

Init ==
    /\ gemini_api_key \in BatchKeyValues
    /\ openai_api_key \in BatchKeyValues
    /\ csv \in Tables
    /\ output_arg \in OutputArgs
    /\ Fresh

(***************************************************************************)
(* process_csv                                                             *)
(***************************************************************************)
default_output_file(input_file) == replace(input_file, <<".", "c", "s", "v">>, <<"_", "e", "n", "r", "i", "c", "h", "e", "d", ".", "c", "s", "v">>)

MissingColumnError == <<"ValueError", "CSV must contain 'company_name' column">>

\* Lines 323-334: the output path, the read, the column check.
Start ==
    /\ pc = "start"
    /\ output_file' = IF output_arg = None
                      THEN default_output_file(csv.input_file)
                      ELSE output_arg
    /\ IF ~csv.exists
       THEN pc' = "returned_none" /\ error' = error
       ELSE IF "company_name" \notin Range(csv.columns)
            THEN pc' = "raised" /\ error' = MissingColumnError
            ELSE pc' = "loop" /\ error' = error
    /\ UNCHANGED <<gemini_api_key, openai_api_key, csv, output_arg, idx,
                   enriched_data, requests, files, result_df, call>>

\* The record the loop appends when enrich_company raises.
substitute_record(company_name) ==
    [company_name |-> company_name,
     website |-> Unknown,
     industry |-> Unknown,
     company_size |-> Unknown,
     summary_from_llm |-> <<"E", "r", "r", "o", "r", " ", "p", "r", "o", "c", "e", "s", "s", "i", "n", "g", " ", "c", "o", "m", "p", "a", "n", "y">>,
     target_customer |-> Unknown,
     automation_pitch_from_llm |-> <<"P", "l", "e", "a", "s", "e", " ", "c", "o", "n", "t", "a", "c", "t", " ", "u", "s", " ", "f", "o", "r", " ", "c", "u", "s", "t", "o", "m", " ", "s", "o", "l", "u", "t", "i", "o", "n">>]

\* loop_body leaving out the rows whose enrichment failed.
loop_body_skip_failed(data, r, company_name) ==
    IF r.exc \/ r.val.industry = Unknown
    THEN data
    ELSE Append(data, r.val)

\* One iteration of the loop body: what it appends.
loop_body(data, r, company_name) ==
    IF r.exc
    THEN Append(data, substitute_record(company_name))
    ELSE Append(data, r.val)

\* Lines 340-358: one iteration of the loop.
ProcessRow ==
    /\ pc = "loop"
    /\ idx < Len(csv.rows)
    /\ \E env \in BatchEnvs :
        LET company_name == csv.rows[idx + 1]
            r == enrich_company(gemini_api_key, openai_api_key, company_name, env)
        IN  /\ enriched_data' = loop_body(enriched_data, r, company_name)
            /\ requests' = [heads |-> requests.heads + Len(r.heads),
                            gets |-> requests.gets + Len(r.gets),
                            posts |-> requests.posts + Len(r.posts)]
    /\ idx' = idx + 1
    /\ UNCHANGED <<gemini_api_key, openai_api_key, csv, output_arg, pc,
                   output_file, files, result_df, error, call>>

Timestamps == {<<"1">>, <<"2">>}

backup_file(now) == <<"e", "n", "r", "i", "c", "h", "e", "d", "_", "c", "o", "m", "p", "a", "n", "i", "e", "s", "_", "b", "a", "c", "k", "u", "p", "_">> \o now \o <<".", "c", "s", "v">>

Written(path, data) == [path |-> path, rows |-> Len(data)]

\* Lines 361-374: the write, the write under the backup name, the return.
Save ==
    /\ pc = "loop"
    /\ idx = Len(csv.rows)
    /\ \E first_ok \in BOOLEAN, backup_ok \in BOOLEAN, now \in Timestamps :
        IF first_ok
        THEN /\ files' = Append(files, Written(output_file, enriched_data))
             /\ result_df' = enriched_data
             /\ pc' = "returned"
             /\ error' = error
        ELSE IF backup_ok
        THEN /\ files' = Append(files, Written(backup_file(now), enriched_data))
             /\ result_df' = enriched_data
             /\ pc' = "returned"
             /\ error' = error
        ELSE /\ files' = files
             /\ result_df' = result_df
             /\ pc' = "raised"
             /\ error' = <<"OSError", "to_csv">>
    /\ UNCHANGED <<gemini_api_key, openai_api_key, csv, output_arg, output_file,
                   idx, enriched_data, requests, call>>

Next == Start \/ ProcessRow \/ Save

Spec == Init /\ [][Next]_vars

(***************************************************************************)
(* Direct calls of the methods, one per behaviour.                         *)
(***************************************************************************)
InitApi ==
    /\ gemini_api_key \in KeyValues
    /\ openai_api_key \in KeyValues
    /\ csv = Csv(<<"c", "o", "m", "p", "a", "n", "i", "e", "s", ".", "c", "s", "v">>, FALSE, <<>>, <<>>)
    /\ output_arg = None
    /\ Fresh

CallEnrich ==
    /\ call = NoCall
    /\ \E name \in Names, env \in Envs :
        call' = [op |-> "enrich_company", name |-> name, env |-> env,
                 out |-> enrich_company(gemini_api_key, openai_api_key, name, env)]
    /\ UNCHANGED <<gemini_api_key, openai_api_key>>
    /\ UNCHANGED batch_vars

CallGemini ==
    /\ call = NoCall
    /\ \E name \in Names \ {NaN}, content \in Contents, resp \in Responses :
        call' = [op |-> "analyze_with_gemini", name |-> name, content |-> content,
                 resp |-> resp,
                 out |-> analyze_with_gemini(gemini_api_key, name, content, resp)]
    /\ UNCHANGED <<gemini_api_key, openai_api_key>>
    /\ UNCHANGED batch_vars

CallOpenai ==
    /\ call = NoCall
    /\ \E name \in Names \ {NaN}, content \in Contents, resp \in Responses :
        call' = [op |-> "analyze_with_openai", name |-> name, content |-> content,
                 resp |-> resp,
                 out |-> analyze_with_openai(openai_api_key, name, content, resp)]
    /\ UNCHANGED <<gemini_api_key, openai_api_key>>
    /\ UNCHANGED batch_vars

CallFallback ==
    /\ call = NoCall
    /\ \E name \in Names \ {NaN}, content \in Contents :
        call' = [op |-> "fallback_analysis", name |-> name, content |-> content,
                 out |-> fallback_analysis(name, content)]
    /\ UNCHANGED <<gemini_api_key, openai_api_key>>
    /\ UNCHANGED batch_vars

\* Names of a direct call of find_company_website: with an underscore, with
\* a tab.
WebsiteNames == Names \cup {<<"A", "c", "m", "e", "_", "I", "n", "c">>, <<"A", "c", "m", "e", "\t", "I", "n", "c">>, <<"O", "'", "N", "e", "i", "l", " ", "&", " ", "S", "o", "n", "s">>}

CallFind ==
    /\ call = NoCall
    /\ \E name \in WebsiteNames, probe \in Probes :
        call' = [op |-> "find_company_website", name |-> name, probe |-> probe,
                 out |-> find_company_website(name, probe)]
    /\ UNCHANGED <<gemini_api_key, openai_api_key>>
    /\ UNCHANGED batch_vars

NextApi == CallEnrich \/ CallGemini \/ CallOpenai \/ CallFallback \/ CallFind

SpecApi == InitApi /\ [][NextApi]_vars

(***************************************************************************)
(* The Streamlit runner, process_companies, and the enricher it falls back *)
(* to when the CompanyEnricher class cannot be imported.                   *)
(***************************************************************************)
FallbackIndustry(name_lower) ==
    IF \E w \in {<<"t", "e", "c", "h">>, <<"s", "o", "f", "t", "w", "a", "r", "e">>, <<"a", "i">>, <<"d", "i", "g", "i", "t", "a", "l">>} : Contains(name_lower, w)
    THEN Technology
    ELSE IF \E w \in {<<"b", "a", "n", "k">>, <<"f", "i", "n", "a", "n", "c", "i", "a", "l">>, <<"c", "a", "p", "i", "t", "a", "l">>} : Contains(name_lower, w)
    THEN Finance
    ELSE IF \E w \in {<<"h", "e", "a", "l", "t", "h">>, <<"m", "e", "d", "i", "c", "a", "l">>, <<"p", "h", "a", "r", "m", "a">>} : Contains(name_lower, w)
    THEN Healthcare
    ELSE BusinessServices

\* FallbackCompanyEnricher.enrich_company: company_name.lower() raises on a
\* value that is not a string.
fallback_enricher_enrich(company_name) ==
    IF ~IsStr(company_name)
    THEN [exc |-> TRUE, val |-> None,
          msg |-> <<"'", "f", "l", "o", "a", "t", "'", " ", "o", "b", "j", "e", "c", "t", " ", "h", "a", "s", " ", "n", "o", " ", "a", "t", "t", "r", "i", "b", "u", "t", "e", " ", "'", "l", "o", "w", "e", "r", "'">>]
    ELSE LET industry == FallbackIndustry(lower(company_name))
         IN  [exc |-> FALSE,
              val |->
                [company_name |-> company_name,
                 website |-> <<"h", "t", "t", "p", "s", ":", "/", "/", "w", "w", "w", ".">>
                    \o replace(replace(lower(company_name), << " " >>, <<>>),
                               << "." >>, <<>>)
                    \o <<".", "c", "o", "m">>,
                 industry |-> industry,
                 company_size |-> <<"M", "e", "d", "i", "u", "m">>,
                 summary_from_llm |-> company_name \o <<" ", "i", "s", " ", "a", " ">> \o lower(industry)
                    \o <<" ", "c", "o", "m", "p", "a", "n", "y", " ", "t", "h", "a", "t", " ", "p", "r", "o", "v", "i", "d", "e", "s", " ", "s", "e", "r", "v", "i", "c", "e", "s", " ", "t", "o", " ", "b", "u", "s", "i", "n", "e", "s", "s", "e", "s", " ", "a", "n", "d", " ", "c", "o", "n", "s", "u", "m", "e", "r", "s", ".">>,
                 target_customer |-> <<"S", "m", "a", "l", "l", " ", "t", "o", " ", "m", "e", "d", "i", "u", "m", " ", "b", "u", "s", "i", "n", "e", "s", "s", "e", "s">>,
                 automation_pitch_from_llm |-> <<"Q", "F", " ", "I", "n", "n", "o", "v", "a", "t", "e", " ", "c", "a", "n", " ", "h", "e", "l", "p", " ">>
                    \o company_name
                    \o <<" ", "i", "m", "p", "l", "e", "m", "e", "n", "t", " ", "A", "I", " ", "c", "h", "a", "t", "b", "o", "t", "s", ",", " ", "a", "u", "t", "o", "m", "a", "t", "e", "d", " ", "c", "u", "s", "t", "o", "m", "e", "r", " ", "s", "e", "r", "v", "i", "c", "e", ",", " ", "a", "n", "d", " ", "p", "r", "o", "c", "e", "s", "s", " ", "o", "p", "t", "i", "m", "i", "z", "a", "t", "i", "o", "n", " ", "t", "o", " ", "i", "n", "c", "r", "e", "a", "s", "e", " ", "e", "f", "f", "i", "c", "i", "e", "n", "c", "y", " ", "b", "y", " ", "3", "0", "-", "5", "0", "%", ".">>],
              msg |-> <<>>]

\* enricher.enrich_company(company_name) of the runner: exc, val, and the
\* message of the exception.
runner_enrich(enricher, gemini_key, openai_key, company_name, env) ==
    IF enricher = "CompanyEnricher"
    THEN LET r == enrich_company(gemini_key, openai_key, company_name, env)
         IN  [exc |-> r.exc, val |-> r.val, msg |-> <<>>]
    ELSE fallback_enricher_enrich(company_name)

\* The live-progress block raises when len() is taken of a summary or a
\* pitch that is None.
render_raises(result) ==
    \/ result.summary_from_llm = None
    \/ result.automation_pitch_from_llm = None

\* The record the runner appends in its except block.
error_record(company_name, error_msg) ==
    [company_name |-> company_name,
     website |-> <<"E", "r", "r", "o", "r">>,
     industry |-> Unknown,
     company_size |-> Unknown,
     summary_from_llm |-> <<"E", "r", "r", "o", "r", ":", " ">> \o error_msg,
     target_customer |-> Unknown,
     automation_pitch_from_llm |-> <<"C", "o", "n", "t", "a", "c", "t", " ", "u", "s", " ", "f", "o", "r", " ", "c", "u", "s", "t", "o", "m", " ", "s", "o", "l", "u", "t", "i", "o", "n">>]

\* The try block and the except block of one iteration: what they append.
\* time.sleep(delay), reached only with delay > 0, raises nothing.
runner_body(results, r, company_name, show_progress) ==
    IF r.exc
    THEN Append(results, error_record(company_name, r.msg))
    ELSE IF show_progress /\ render_raises(r.val)
         THEN Append(Append(results, r.val),
                     error_record(company_name,
                                  <<"o", "b", "j", "e", "c", "t", " ", "o", "f", " ", "t", "y", "p", "e", " ", "'", "N", "o", "n", "e", "T", "y", "p", "e", "'", " ", "h", "a", "s", " ", "n", "o", " ", "l", "e", "n", "(", ")">>))
         ELSE Append(results, r.val)

\* df.head(batch_size), batch_size >= 1
head(rows, batch_size) ==
    SubSeq(rows, 1, IF batch_size < Len(rows) THEN batch_size ELSE Len(rows))

Enrichers == {"CompanyEnricher", "FallbackCompanyEnricher"}

\* Per-record outcomes of a run: those of a batch, and the backend
\* answering a JSON object with a null summary.
RunnerEnvs ==
    BatchEnvs \cup {Env([i \in 1..4 |-> ProbeStatus(StatusOK)], Fetch(TRUE, SoftwarePage),
                        Response("json_object", OddJson))}

ProcessCompanies(enricher, batch_size, show_progress, delay) ==
    [op |-> "process_companies", enricher |-> enricher, batch_size |-> batch_size,
     show_progress |-> show_progress, delay |-> delay]

InitUi ==
    /\ gemini_api_key \in BatchKeyValues
    /\ openai_api_key \in BatchKeyValues
    /\ csv \in {Csv(<<"c", "o", "m", "p", "a", "n", "i", "e", "s", ".", "c", "s", "v">>, TRUE, <<"company_name">>, rows) :
                    rows \in SeqsUpTo(BatchNames, MaxRows)}
    /\ call \in {ProcessCompanies(e, b, s, d) :
                    e \in Enrichers, b \in 1..(MaxRows + 1), s \in BOOLEAN, d \in {0, 1}}
    /\ pc = "ui_loop"
    /\ output_arg = None
    /\ output_file = None
    /\ idx = 0
    /\ enriched_data = <<>>
    /\ requests = [heads |-> 0, gets |-> 0, posts |-> 0]
    /\ files = <<>>
    /\ result_df = <<>>
    /\ error = NoError

\* Lines 110-158: one iteration of the loop of process_companies.
UiProcessRow ==
    /\ pc = "ui_loop"
    /\ idx < Len(head(csv.rows, call.batch_size))
    /\ \E env \in RunnerEnvs :
        LET company_name == csv.rows[idx + 1]
            r == runner_enrich(call.enricher, gemini_api_key, openai_api_key,
                               company_name, env)
        IN  enriched_data' = runner_body(enriched_data, r, company_name,
                                         call.show_progress)
    /\ idx' = idx + 1
    /\ UNCHANGED <<gemini_api_key, openai_api_key, csv, output_arg, pc,
                   output_file, requests, files, result_df, error, call>>

\* Lines 160-163: the loop is over, the results become the table shown.
UiFinish ==
    /\ pc = "ui_loop"
    /\ idx = Len(head(csv.rows, call.batch_size))
    /\ pc' = "ui_done"
    /\ result_df' = enriched_data
    /\ UNCHANGED <<gemini_api_key, openai_api_key, csv, output_arg, output_file,
                   idx, enriched_data, requests, files, error, call>>

NextUi == UiProcessRow \/ UiFinish

SpecUi == InitUi /\ [][NextUi]_vars

(***************************************************************************)
(* Properties                                                              *)
(***************************************************************************)
RecordFields ==
    {"company_name", "website", "industry", "company_size", "summary_from_llm",
     "target_customer", "automation_pitch_from_llm"}

AnalysisFields ==
    {"summary", "target_customer", "industry", "company_size", "automation_pitch"}

\* The first n records are those of the first n rows, in row order.
RecordsOfRows(data, n) ==
    /\ Len(data) = n
    /\ \A i \in 1..n :
        /\ DOMAIN data[i] = RecordFields
        /\ data[i].company_name = csv.rows[i]

\* C1: for every table with the company_name column and every combination
\* of per-record outcomes, the loop of process_csv holds exactly one record
\* per row it has consumed, in row order, and the collection process_csv
\* returns has one record per input row, the i-th carrying the i-th row's
\* company_name.
C1_OneRecordPerRow ==
    /\ pc = "loop" => RecordsOfRows(enriched_data, idx)
    /\ pc = "returned" => RecordsOfRows(result_df, Len(csv.rows))

\* A returned batch of two rows, the first row's record degraded (an empty
\* cell) and the second enriched by the generation backend.
C1_Witness ==
    /\ pc = "returned"
    /\ Len(csv.rows) = 2
    /\ Len(result_df) = 2
    /\ result_df[1].company_name = NaN
    /\ result_df[1].industry = Unknown
    /\ result_df[2].company_name = <<"A", "c", "m", "e", " ", "I", "n", "c", ".">>
    /\ result_df[2].industry = <<"L", "o", "g", "i", "s", "t", "i", "c", "s">>

IsEnrichCall == call.op = "enrich_company"

\* C2: enrich_company never raises: whatever the name and whatever fails,
\* it returns a record holding all seven fields.
C2_EnrichNeverRaises ==
    IsEnrichCall =>
        /\ ~call.out.exc
        /\ DOMAIN call.out.val = RecordFields

\* The try block of the call raised.
EnrichFailed ==
    /\ IsEnrichCall
    /\ enrich_try(gemini_api_key, openai_api_key, call.name, call.env).exc

\* A call whose website resolution raised, and which returned a record.
C2_Witness ==
    /\ EnrichFailed
    /\ ~call.out.exc
    /\ call.out.val.industry = Unknown

IsBlank(v) == v = <<>> \/ v = None \/ v = NaN

\* C3: a record returned after a failure carries explicit sentinel strings:
\* none of its seven fields is the empty string or null, the website field
\* included.
C3_DegradedRecordHasNoBlankField ==
    EnrichFailed =>
        \A f \in RecordFields : ~IsBlank(call.out.val[f])


IsGeminiCall == call.op = "analyze_with_gemini"
IsOpenaiCall == call.op = "analyze_with_openai"
IsFallbackCall == call.op = "fallback_analysis"
IsAnalysisCall == IsGeminiCall \/ IsOpenaiCall \/ IsFallbackCall

\* C4: whatever the input and whatever the backend answers, the analysis
\* returned has all five fields, each a non-empty string.
C4_AnalysisFieldsPopulated ==
    IsAnalysisCall =>
        /\ AnalysisFields \subseteq DOMAIN call.out
        /\ \A f \in AnalysisFields : ~IsBlank(call.out[f])

\* The call reached a configured backend, and the backend failed.
BackendFailed ==
    \/ IsGeminiCall /\ Truthy(gemini_api_key) /\ call.resp.kind \in FailureKinds
    \/ IsOpenaiCall /\ Truthy(openai_api_key) /\ call.resp.kind \in FailureKinds

\* C5: when the configured backend fails (request error, timeout, bad
\* status, malformed JSON, no JSON object in the body), analyze_with_gemini
\* and analyze_with_openai return exactly what fallback_analysis returns on
\* the same name and the same, untruncated, content.
C5_ExactFallbackEquivalence ==
    BackendFailed => call.out = fallback_analysis(call.name, call.content)

\* The backend answered malformed JSON on a content longer than the prompt
\* carries, and the size was estimated from the whole content.
C5_Witness ==
    /\ IsGeminiCall
    /\ BackendFailed
    /\ call.resp.kind = "malformed_json"
    /\ TLen(call.content) > LargeThreshold
    /\ call.out.company_size = <<"l", "a", "r", "g", "e">>

\* The call ran with no generation backend configured.
IsRuleBasedCall ==
    \/ IsFallbackCall
    \/ IsGeminiCall /\ ~Truthy(gemini_api_key)
    \/ IsOpenaiCall /\ ~Truthy(openai_api_key)

HasAnyKeyword(t) ==
    AnyKeyword(t, TechnologyKeywords \cup FinanceKeywords
                    \cup HealthcareKeywords \cup RetailKeywords)

\* C6 as stated: with no backend, every content containing "software" is
\* Technology, every content containing "medical" is Healthcare, and every
\* content matching no keyword is Business Services.
C6_Original ==
    IsRuleBasedCall =>
        /\ Contains(call.content.text, <<"s", "o", "f", "t", "w", "a", "r", "e">>) => call.out.industry = Technology
        /\ Contains(call.content.text, <<"m", "e", "d", "i", "c", "a", "l">>) => call.out.industry = Healthcare
        /\ ~HasAnyKeyword(call.content) => call.out.industry = BusinessServices

\* C6, amended: with no backend, every content containing "software" is
\* Technology; every content containing "medical" and, lower-cased, no
\* technology and no finance keyword is Healthcare; every content matching
\* no keyword is Business Services.
C6_IndustryByKeyword ==
    IsRuleBasedCall =>
        /\ Contains(call.content.text, <<"s", "o", "f", "t", "w", "a", "r", "e">>) => call.out.industry = Technology
        /\ (/\ Contains(call.content.text, <<"m", "e", "d", "i", "c", "a", "l">>)
            /\ ~AnyKeyword(call.content, TechnologyKeywords \cup FinanceKeywords))
                => call.out.industry = Healthcare
        /\ ~HasAnyKeyword(call.content) => call.out.industry = BusinessServices

\* A content that names "medical" beside no higher-priority keyword.
C6_Witness ==
    /\ IsFallbackCall
    /\ call.content.text = <<"m", "e", "d", "i", "c", "a", "l", " ", "c", "l", "i", "n", "i", "c">>
    /\ call.out.industry = Healthcare

\* C7: with no backend, company_size depends on the content length n
\* alone: large iff n > 2000, medium iff 1000 < n <= 2000, small iff
\* n <= 1000.
C7_SizeByLength ==
    IsRuleBasedCall =>
        LET n == TLen(call.content)
            size == call.out.company_size
        IN  /\ size = <<"l", "a", "r", "g", "e">> <=> n > 2000
            /\ size = <<"m", "e", "d", "i", "u", "m">> <=> (n > 1000 /\ n <= 2000)
            /\ size = <<"s", "m", "a", "l", "l">> <=> n <= 1000

\* A content of exactly 2000 characters, sized medium.
C7_Witness ==
    /\ IsFallbackCall
    /\ TLen(call.content) = 2000
    /\ call.out.company_size = <<"m", "e", "d", "i", "u", "m">>

\* Every candidate was probed and none answered 200.
NoneAccessible ==
    /\ IsEnrichCall
    /\ Len(call.out.heads) = Len(call.env.probe)
    /\ \A i \in 1..Len(call.env.probe) :
        call.env.probe[i].raises \/ call.env.probe[i].status # 200

\* C8: if no candidate is accessible (every probe raises or answers a
\* non-success status), enrich_company raises nothing and returns a record
\* whose website is a non-empty string, the unvalidated guess.
C8_BestGuessWebsite ==
    NoneAccessible =>
        /\ ~call.out.exc
        /\ IsStr(call.out.val.website)
        /\ Len(call.out.val.website) > 0
        /\ call.out.val.website = call.out.heads[Len(call.out.heads)]

\* The empty name, every probe raising: the guess is still a URL.
C8_Witness ==
    /\ NoneAccessible
    /\ call.name = <<>>
    /\ \A i \in 1..Len(call.env.probe) : call.env.probe[i].raises
    /\ call.out.val.website = <<"h", "t", "t", "p", "s", ":", "/", "/", "w", "w", "w", ".", ".", "c", "o", "m">>

\* process_csv was given a readable table without the company_name column
\* and has checked it.
MissingColumnSeen ==
    /\ pc # "start"
    /\ csv.exists
    /\ "company_name" \notin Range(csv.columns)

\* C9: when the table lacks the company_name column, processing halts
\* before any record is enriched (no probe, fetch, generation call or
\* write) and the error reported lists every available column name.
C9_HaltsAndListsColumns ==
    MissingColumnSeen =>
        /\ pc = "raised"
        /\ enriched_data = <<>>
        /\ requests = [heads |-> 0, gets |-> 0, posts |-> 0]
        /\ files = <<>>
        /\ \A c \in Range(csv.columns) : c \in Range(error)

\* The loop of process_csv is over and the write has been attempted.
SaveDone ==
    /\ pc \in {"returned", "raised"}
    /\ csv.exists
    /\ "company_name" \in Range(csv.columns)

\* C10: whatever the outcome of the write attempts, process_csv hands the
\* complete ordered result collection back to its caller.
C10_DataReturnedWhateverTheWrites ==
    SaveDone =>
        /\ pc = "returned"
        /\ result_df = enriched_data
        /\ Len(result_df) = Len(csv.rows)


\* The content enrich_company fetched in the call.
FetchedContent == scrape_website_content(call.env.fetch)

\* The call resolved a website and fetched non-empty content from it, so
\* it reached the analysis step.
AnalysisReached ==
    /\ IsEnrichCall
    /\ Len(call.out.gets) = 1
    /\ TLen(FetchedContent) > 0

Endpoints(posts) == [i \in 1..Len(posts) |-> posts[i].endpoint]

\* The five analysis fields of a record are those update gives from analysis.
AnalysisFieldsFrom(record, analysis) ==
    record = update_from_analysis(record, analysis)

\* C11: the strategy follows the credentials, Gemini before OpenAI before
\* the rules: an endpoint is contacted only if its credential is present;
\* at the analysis step, with the Gemini credential (alone or beside
\* OpenAI's) the one request goes to Gemini, with OpenAI's alone to OpenAI,
\* and with neither no request is made and the record holds what
\* fallback_analysis gives on the fetched content.
C11_StrategyByCredentials ==
    IsEnrichCall =>
        LET used == Endpoints(call.out.posts)
        IN  /\ "gemini" \in Range(used) => Truthy(gemini_api_key)
            /\ "openai" \in Range(used) => Truthy(openai_api_key)
            /\ ~AnalysisReached => used = <<>>
            /\ AnalysisReached =>
                /\ Truthy(gemini_api_key) => used = <<"gemini">>
                /\ (~Truthy(gemini_api_key) /\ Truthy(openai_api_key))
                        => used = <<"openai">>
                /\ (~Truthy(gemini_api_key) /\ ~Truthy(openai_api_key)) =>
                    /\ used = <<>>
                    /\ AnalysisFieldsFrom(call.out.val,
                            fallback_analysis(call.name, FetchedContent))

\* Both credentials present: Gemini alone was asked, and its answer used.
C11_Witness ==
    /\ AnalysisReached
    /\ Truthy(gemini_api_key)
    /\ Truthy(openai_api_key)
    /\ Endpoints(call.out.posts) = <<"gemini">>
    /\ call.env.resp = Response("json_object", FullJson)
    /\ call.out.val.industry = <<"L", "o", "g", "i", "s", "t", "i", "c", "s">>


IsFindCall == call.op = "find_company_website"

\* A punctuation character: neither a letter, nor a digit, nor white space.
IsPunctuation(c) ==
    /\ c \notin Range(UpperChars) \cup Range(LowerChars) \cup Range(DigitChars)
    /\ ~IsSpaceChar(c)

IsNameChar(c) == ~IsPunctuation(c) /\ c # " "

\* The name lower-cased, its punctuation and its spaces removed.
CleanName(name) == SelectSeq(lower(name), IsNameChar)

\* The four candidates, in the order of the claim.
Candidates(name) ==
    << <<"h", "t", "t", "p", "s", ":", "/", "/">> \o CleanName(name) \o <<".", "c", "o", "m">>,
       <<"h", "t", "t", "p", "s", ":", "/", "/">> \o CleanName(name) \o <<".", "c", "o">>,
       <<"h", "t", "t", "p", "s", ":", "/", "/">> \o CleanName(name) \o <<".", "i", "o">>,
       <<"h", "t", "t", "p", "s", ":", "/", "/", "w", "w", "w", ".">> \o CleanName(name) \o <<".", "c", "o", "m">> >>

Answers200(outcome) == ~outcome.raises /\ outcome.status = 200

\* C12: find_company_website probes <clean>.com, <clean>.co, <clean>.io,
\* www.<clean>.com in that order (clean: the name lower-cased, punctuation
\* and spaces removed), returns the first candidate whose probe answers 200
\* and probes none after it, and returns https://www.<clean>.com when none
\* does; a probe that raises or answers another status is not accessible.
C12_ProbesInOrder ==
    (IsFindCall /\ IsStr(call.name)) =>
        LET cands == Candidates(call.name)
            hits == {i \in 1..4 : Answers200(call.probe[i])}
        IN  /\ ~call.out.exc
            /\ hits = {} =>
                /\ call.out.heads = cands
                /\ call.out.val = cands[4]
            /\ hits # {} =>
                LET k == CHOOSE i \in hits : \A j \in hits : i <= j
                IN  /\ call.out.heads = SubSeq(cands, 1, k)
                    /\ call.out.val = cands[k]

\* C12 on the names that hold no underscore.
C12_ProbesInOrderNoUnderscore ==
    (IsFindCall /\ "_" \notin Range(call.name)) => C12_ProbesInOrder


\* The call resolved a website and the fetch from it gave empty text.
EmptyContentFetched ==
    /\ IsEnrichCall
    /\ Len(call.out.gets) = 1
    /\ TLen(FetchedContent) = 0

\* C13: when the fetch yields empty text, the record's analysis fields are
\* those of the strategy the credentials select, run on the bare company
\* name as content, for every credential configuration.
C13_EmptyContentUsesSelectedStrategy ==
    EmptyContentFetched =>
        AnalysisFieldsFrom(call.out.val,
            select_analysis(gemini_api_key, openai_api_key, call.name,
                            AsText(call.name), call.env.resp))


\* process_csv was called without an output file and has derived one.
DefaultOutputDerived ==
    /\ pc # "start"
    /\ output_arg = None

\* C14: without an explicit output file, the derived output path differs
\* from the input path, whatever the input file name, so that no write of
\* the results goes to the input file.
C14_DefaultOutputIsNotTheInput ==
    DefaultOutputDerived =>
        /\ output_file # csv.input_file
        /\ \A i \in 1..Len(files) : files[i].path # csv.input_file


\* C15: through enrich_company with no generation backend configured and
\* non-empty fetched content, company_size is "small" or "medium", never
\* "large": the fetched content holds at most 2000 characters and "large"
\* needs more than 2000.
C15_NeverLargeThroughEnrich ==
    (/\ AnalysisReached
     /\ ~Truthy(gemini_api_key)
     /\ ~Truthy(openai_api_key)) =>
        /\ TLen(FetchedContent) <= 2000
        /\ call.out.val.company_size \in {<<"s", "m", "a", "l", "l">>, <<"m", "e", "d", "i", "u", "m">>}

\* A page of 2500 characters, fetched with no backend, sized medium.
C15_Witness ==
    /\ AnalysisReached
    /\ ~Truthy(gemini_api_key)
    /\ ~Truthy(openai_api_key)
    /\ TLen(call.env.fetch.page) > 2000
    /\ call.out.val.company_size = <<"m", "e", "d", "i", "u", "m">>


\* The industry of the keyword set that holds k.
IndustryOfKeyword(k) ==
    IF k \in TechnologyKeywords THEN Technology
    ELSE IF k \in FinanceKeywords THEN Finance
    ELSE IF k \in HealthcareKeywords THEN Healthcare
    ELSE Retail

AllKeywords ==
    TechnologyKeywords \cup FinanceKeywords \cup HealthcareKeywords \cup RetailKeywords

\* C16: every keyword selects its own category: content that is exactly a
\* keyword of one of the four sets is classified as that set's industry;
\* no keyword is shadowed by a substring match of a set tested earlier.
C16_KeywordSelectsItsCategory ==
    (IsFallbackCall /\ call.content.pad = 0 /\ call.content.text \in AllKeywords) =>
        call.out.industry = IndustryOfKeyword(call.content.text)


\* The rows process_companies is to process.
RowsToProcess == head(csv.rows, call.batch_size)

\* C17: in process_companies, whatever step of a row's processing raises
\* (the enrich call, the live-progress rendering, the delay), the result
\* list holds exactly one record per processed row, for the first
\* min(batch_size, number of rows) rows, in input order.
C17_RunnerOneRecordPerRow ==
    /\ pc = "ui_loop" => RecordsOfRows(enriched_data, idx)
    /\ pc = "ui_done" =>
        /\ Len(RowsToProcess) =
            (IF call.batch_size < Len(csv.rows) THEN call.batch_size ELSE Len(csv.rows))
        /\ RecordsOfRows(result_df, Len(RowsToProcess))

====
